---- MODULE Spec2Model ----
(***************************************************************************)
(* Model of ovos_tts_plugin_elevenlabs/__init__.py: the ElevenLabsTTSPlugin *)
(* (construction, the configuration properties, get_tts) and the           *)
(* ElevenLabsTTSValidator.                                                  *)
(*                                                                         *)
(* Strings the code inspects character by character (the suggested path,   *)
(* the locale) are sequences of one-character strings.  Every remote call  *)
(* and every file operation is one step, whose outcome the environment     *)
(* chooses; `pc` is the position inside the running operation, and while   *)
(* an operation runs only its own next step is enabled (the code is        *)
(* single-threaded and blocking).  `log` is the history of the remote      *)
(* calls and file operations of the running (or last) operation.           *)
(***************************************************************************)
EXTENDS Integers, Sequences, FiniteSets, TLC

VARIABLES config, env, lang, net, wav_file,
          obj, client, fs,
          pc, op, log, result,
          out_path, available_voice_ids, voices, voice_ids, audio_stream,
          bytes_written

vars == <<config, env, lang, net, wav_file, obj, client, fs, pc, op, log,
          result, out_path, available_voice_ids, voices, voice_ids,
          audio_stream, bytes_written>>

inputs == <<config, env, lang, net, wav_file>>
locals == <<out_path, available_voice_ids, voices, voice_ids, audio_stream,
            bytes_written>>

-----------------------------------------------------------------------------
(* Bounds of the model.                                                    *)
MaxPathSegs == 3
MaxLangSegs == 3
MaxVoices == 2
MaxChunks == 2

-----------------------------------------------------------------------------
(* Character sequences.                                                    *)
WavExt == <<".", "w", "a", "v">>
Mp3Ext == <<".", "m", "p", "3">>
Mp3 == <<"m", "p", "3">>

StartsWith(s, pat) ==
    /\ Len(pat) <= Len(s)
    /\ SubSeq(s, 1, Len(pat)) = pat

EndsWith(s, pat) ==
    /\ Len(pat) <= Len(s)
    /\ SubSeq(s, Len(s) - Len(pat) + 1, Len(s)) = pat

RECURSIVE Flatten(_)
Flatten(ss) == IF ss = <<>> THEN <<>> ELSE Head(ss) \o Flatten(Tail(ss))

SeqsUpTo(S, n) == UNION { [1..k -> S] : k \in 0..n }

(* Python's str.replace(old, new): every non-overlapping occurrence, left  *)
(* to right.                                                               *)
RECURSIVE StrReplace(_, _, _)
StrReplace(s, old, new) ==
    IF s = <<>> THEN <<>>
    ELSE IF StartsWith(s, old)
         THEN new \o StrReplace(SubSeq(s, Len(old) + 1, Len(s)), old, new)
         ELSE <<Head(s)>> \o StrReplace(Tail(s), old, new)

(* Python's s.split(sep)[0]: the text before the first separator.          *)
RECURSIVE SplitFirst(_, _)
SplitFirst(s, sep) ==
    IF s = <<>> \/ Head(s) = sep THEN <<>>
    ELSE <<Head(s)>> \o SplitFirst(Tail(s), sep)

LowerChar(c) ==
    CASE c = "A" -> "a" [] c = "B" -> "b" [] c = "C" -> "c" [] c = "D" -> "d"
      [] c = "E" -> "e" [] c = "F" -> "f" [] c = "G" -> "g" [] c = "H" -> "h"
      [] c = "I" -> "i" [] c = "J" -> "j" [] c = "K" -> "k" [] c = "L" -> "l"
      [] c = "M" -> "m" [] c = "N" -> "n" [] c = "O" -> "o" [] c = "P" -> "p"
      [] c = "Q" -> "q" [] c = "R" -> "r" [] c = "S" -> "s" [] c = "T" -> "t"
      [] c = "U" -> "u" [] c = "V" -> "v" [] c = "W" -> "w" [] c = "X" -> "x"
      [] c = "Y" -> "y" [] c = "Z" -> "z" [] OTHER -> c

Lower(s) == [i \in 1..Len(s) |-> LowerChar(s[i])]

-----------------------------------------------------------------------------
(* TTSConfiguration and the class attributes.                              *)
DEFAULT_MODEL == "eleven_multilingual_v2"
DEFAULT_VOICE_ID == "JBFqnCBsd6RMkjVDRZzb"
DEFAULT_STABILITY == "0.5"
DEFAULT_SIMILARITY == "0.75"
DEFAULT_STYLE == "0.0"
DEFAULT_SPEAKER_BOOST == TRUE
DEFAULT_OUTPUT_FORMAT == "mp3_44100_128"
DEFAULT_USE_STREAMING == FALSE

available_languages ==
    { <<"e","n">>, <<"e","s">>, <<"f","r">>, <<"d","e">>, <<"i","t">>,
      <<"p","t">>, <<"p","l">>, <<"h","i">>, <<"a","r">>, <<"b","n">>,
      <<"c","s">>, <<"d","a">>, <<"n","l">>, <<"f","i">>, <<"e","l">>,
      <<"h","u">>, <<"i","d">>, <<"j","a">>, <<"k","o">>, <<"m","s">>,
      <<"n","o">>, <<"r","o">>, <<"r","u">>, <<"s","k">>, <<"s","v">>,
      <<"t","a">>, <<"t","r">>, <<"u","k">>, <<"u","r">>, <<"v","i">>,
      <<"z","h">>, <<"b","g">> }

None == "None"

(* The errors an operation can raise.                                      *)
ErrNoKey == "ValueError: ElevenLabs API key not found in config or environment"
ErrVoiceTts == "ValueError: Voice ID not found in available voices"
ErrVoiceVal == "Exception: Voice ID not found in available voices"
ErrLang == "ValueError: Language not supported"
ErrAttr == "AttributeError: voice_id"
ErrRemote == "ApiError"
ErrIO == "OSError"

-----------------------------------------------------------------------------
(* The configuration mapping: a function from the keys that are present.   *)
(* dict.get(key, default).                                                 *)
Get(cfg, key, default) == IF key \in DOMAIN cfg THEN cfg[key] ELSE default

(* dict.get(key) / os.getenv(key): None when absent; "" is falsy as None.  *)
GetOrNone(m, key) == Get(m, key, None)
Falsy(v) == v = None \/ v = ""

(* The lookup with the environment consulted first.                        *)
ApiKeyEnvFirst(cfg, e) ==
    IF ~Falsy(GetOrNone(e, "ELEVENLABS_API_KEY"))
    THEN GetOrNone(e, "ELEVENLABS_API_KEY")
    ELSE GetOrNone(cfg, "api_key")

(* The api_key property, line 59: the configuration's value or the         *)
(* environment's; a falsy value makes the property raise (lines 60-61).    *)
api_key(cfg, e) ==
    IF ~Falsy(GetOrNone(cfg, "api_key"))
    THEN GetOrNone(cfg, "api_key")
    ELSE GetOrNone(e, "ELEVENLABS_API_KEY")

(* The value the voice_id property returns (its remote call is a step).    *)
voice_id(cfg) ==
    IF Falsy(GetOrNone(cfg, "voice_id")) THEN DEFAULT_VOICE_ID
    ELSE cfg["voice_id"]

model_id(cfg) == Get(cfg, "model_id", DEFAULT_MODEL)
use_streaming(cfg) == Get(cfg, "use_streaming", DEFAULT_USE_STREAMING)
output_format(cfg) == Get(cfg, "output_format", DEFAULT_OUTPUT_FORMAT)
voice_settings(cfg) ==
    [ stability |-> Get(cfg, "stability", DEFAULT_STABILITY),
      similarity_boost |-> Get(cfg, "similarity_boost", DEFAULT_SIMILARITY),
      style |-> Get(cfg, "style", DEFAULT_STYLE),
      use_speaker_boost |-> Get(cfg, "speaker_boost", DEFAULT_SPEAKER_BOOST) ]

-----------------------------------------------------------------------------
(* The remote service's answers.                                           *)
VoiceIds == {DEFAULT_VOICE_ID, "v1"}
Voice(id) == [name |-> "voice", voice_id |-> id]
TupleOf(v) == [tuple |-> <<v>>]
NoIdEntry == [name |-> "voice"]
VoiceEntries ==
    {Voice(id) : id \in VoiceIds} \cup {TupleOf(Voice(id)) : id \in VoiceIds}
        \cup {NoIdEntry}
VoiceLists == SeqsUpTo(VoiceEntries, MaxVoices)

IsTuple(v) == "tuple" \in DOMAIN v
HasVoiceId(v) == "voice_id" \in DOMAIN v

Chunks == {<<>>, <<1>>, <<2>>}
(* A stream: the chunks it yields, and whether iteration then ends or      *)
(* raises.                                                                 *)
Streams == [chunks : SeqsUpTo(Chunks, MaxChunks), ends : {"ok", ErrRemote}]

(* Whether a remote call or a file operation may fail in this run.         *)
MayFail == IF net = "flaky" THEN {TRUE, FALSE} ELSE {FALSE}

-----------------------------------------------------------------------------
(* Inputs.                                                                 *)
Sentence == "Hello world"
PathSegs == {<<"a">>, WavExt, <<".", "o", "g", "g">>}
Paths == {Flatten(ss) : ss \in SeqsUpTo(PathSegs, MaxPathSegs)} \ {<<>>}

EnUS == <<"e", "n", "-", "U", "S">>
ENus == <<"E", "N", "-", "u", "s">>
XxYY == <<"x", "x", "-", "Y", "Y">>
LangSegs == {<<"e", "n">>, <<"E", "N">>, <<"x", "x">>, <<"-">>}
Langs == {Flatten(ss) : ss \in SeqsUpTo(LangSegs, MaxLangSegs)}
             \cup {EnUS, ENus, XxYY}

KeyOnly == [api_key |-> "cfg-key"]
NoCfg == [k \in {} |-> ""]
ApiKeyChoices == {NoCfg, [api_key |-> ""], KeyOnly}
EnvChoices == {NoCfg, [ELEVENLABS_API_KEY |-> ""],
               [ELEVENLABS_API_KEY |-> "env-key"]}
VoiceIdChoices == {NoCfg, [voice_id |-> ""], [voice_id |-> "v1"]}
StreamingChoices == {NoCfg, [use_streaming |-> TRUE], [use_streaming |-> FALSE]}
ParamChoices ==
    {NoCfg,
     [model_id |-> "eleven_turbo_v2", output_format |-> "mp3_22050_32"],
     [stability |-> "0.3", speaker_boost |-> FALSE],
     [similarity_boost |-> "0.9", style |-> "0.4", voice_id |-> "v1"]}

DefaultPath == <<"a">> \o WavExt

NoResult == [status |-> "none", err |-> "", value |-> <<>>]
Returned(v) == [status |-> "returned", err |-> "", value |-> v]
Raised(e) == [status |-> "raised", err |-> e, value |-> <<>>]

NoStream == [chunks |-> <<>>, ends |-> "ok"]

(* The scenarios: each varies one group of inputs.                         *)
InitCredentials ==
    /\ config \in ApiKeyChoices
    /\ env \in EnvChoices
    /\ lang = EnUS /\ wav_file = DefaultPath /\ net = "up"

InitVoice ==
    /\ config \in {KeyOnly @@ v @@ s : v \in VoiceIdChoices, s \in StreamingChoices}
    /\ env = NoCfg
    /\ lang = EnUS /\ wav_file = DefaultPath /\ net = "flaky"

InitParams ==
    /\ config \in {KeyOnly @@ p : p \in ParamChoices}
    /\ env = NoCfg
    /\ lang = EnUS /\ wav_file = DefaultPath /\ net = "up"

PathInputs ==
    /\ config = KeyOnly /\ env = NoCfg /\ lang = EnUS /\ net = "flaky"
    /\ wav_file \in Paths

LangInputs ==
    /\ config = KeyOnly /\ env = NoCfg /\ net = "up"
    /\ wav_file = DefaultPath
    /\ lang \in Langs

InitState ==
    /\ obj = "none"
    /\ client = <<>>
    /\ fs = NoCfg
    /\ pc = "idle"
    /\ op = "none"
    /\ log = <<>>
    /\ result = NoResult
    /\ out_path = <<>>
    /\ available_voice_ids = <<>>
    /\ voices = <<>>
    /\ voice_ids = <<>>
    /\ audio_stream = NoStream
    /\ bytes_written = 0

InitPaths == PathInputs /\ InitState

InitLangs == LangInputs /\ InitState

Init ==
    /\ \/ InitCredentials
       \/ InitVoice
       \/ InitParams
    /\ InitState

-----------------------------------------------------------------------------
(* Bookkeeping shared by the steps.                                        *)
Ev(call, site, ok, data) == [call |-> call, site |-> site, ok |-> ok, data |-> data]

Range(s) == {s[i] : i \in 1..Len(s)}

Idle == pc = "idle" /\ obj = "live"

Enter(name) == op' = name

ClearLocals ==
    /\ out_path' = <<>>
    /\ available_voice_ids' = <<>>
    /\ voices' = <<>>
    /\ voice_ids' = <<>>
    /\ audio_stream' = NoStream
    /\ bytes_written' = 0

Return(v) == pc' = "idle" /\ result' = Returned(v)
Raise(e) == pc' = "idle" /\ result' = Raised(e)

(* The remote call inside the voice_id property (lines 69-80): the list is *)
(* only logged, and a failure is caught and logged as a warning.           *)
VoiceIdLookup(failed) ==
    log' = Append(log, Ev("voices.get_all", "voice_id", ~failed, <<>>))

-----------------------------------------------------------------------------
(* ElevenLabsTTSPlugin.__init__: the client is created from the api_key    *)
(* property; the property's error is logged and re-raised.                 *)
Construct ==
    /\ obj = "none"
    /\ op' = "__init__"
    /\ log' = <<>>
    /\ IF Falsy(api_key(config, env))
       THEN /\ obj' = "failed"
            /\ client' = <<>>
            /\ result' = Raised(ErrNoKey)
       ELSE /\ obj' = "live"
            /\ client' = <<[api_key |-> api_key(config, env)]>>
            /\ result' = Returned(<<>>)
    /\ UNCHANGED <<inputs, fs, pc, locals>>

-----------------------------------------------------------------------------
(* The configuration properties, read by the host.                         *)
GetApiKey ==
    /\ Idle
    /\ Enter("api_key")
    /\ log' = <<>>
    /\ IF Falsy(api_key(config, env))
       THEN Raise(ErrNoKey)
       ELSE Return(<<api_key(config, env)>>)
    /\ ClearLocals
    /\ UNCHANGED <<inputs, obj, client, fs>>

GetVoiceId ==
    /\ Idle
    /\ Enter("voice_id")
    /\ \E failed \in MayFail :
          log' = <<Ev("voices.get_all", "voice_id", ~failed, <<>>)>>
    /\ Return(<<voice_id(config)>>)
    /\ ClearLocals
    /\ UNCHANGED <<inputs, obj, client, fs>>

GetModelId ==
    /\ Idle
    /\ Enter("model_id")
    /\ log' = <<>>
    /\ Return(<<model_id(config)>>)
    /\ ClearLocals
    /\ UNCHANGED <<inputs, obj, client, fs>>

GetUseStreaming ==
    /\ Idle
    /\ Enter("use_streaming")
    /\ log' = <<>>
    /\ Return(<<use_streaming(config)>>)
    /\ ClearLocals
    /\ UNCHANGED <<inputs, obj, client, fs>>

GetOutputFormat ==
    /\ Idle
    /\ Enter("output_format")
    /\ log' = <<>>
    /\ Return(<<output_format(config)>>)
    /\ ClearLocals
    /\ UNCHANGED <<inputs, obj, client, fs>>

GetVoiceSettings ==
    /\ Idle
    /\ Enter("voice_settings")
    /\ log' = <<>>
    /\ Return(<<voice_settings(config)>>)
    /\ ClearLocals
    /\ UNCHANGED <<inputs, obj, client, fs>>

-----------------------------------------------------------------------------
(* get_tts.                                                                *)

(* Lines 132-137: the ids of the listed voices; a tuple stands for its     *)
(* first element, an entry without a voice_id attribute is skipped.        *)
RECURSIVE ExtractIds(_)
ExtractIds(vs) ==
    IF vs = <<>> THEN <<>>
    ELSE LET voice == Head(vs)
             voice_info == IF IsTuple(voice) THEN voice.tuple[1] ELSE voice
         IN  IF HasVoiceId(voice_info)
             THEN <<voice_info.voice_id>> \o ExtractIds(Tail(vs))
             ELSE ExtractIds(Tail(vs))

(* Line 122.                                                               *)
OutPath(path) == StrReplace(path, WavExt, Mp3Ext)

(* The test of line 140 left out.                                          *)
VoiceAlwaysFound(cfg, ids) == TRUE

(* Line 140.                                                               *)
VoiceFound(cfg, ids) == voice_id(cfg) \in Range(ids)

(* The branches of line 146 exchanged.                                     *)
SynthesisCallSwapped(cfg) ==
    IF use_streaming(cfg) THEN "text_to_speech.convert"
    ELSE "text_to_speech.convert_as_stream"

(* Lines 146, 149, 159: which synthesis call the invocation makes.         *)
SynthesisCall(cfg) ==
    IF use_streaming(cfg) THEN "text_to_speech.convert_as_stream"
    ELSE "text_to_speech.convert"

(* Lines 150-154, 160-164: what the synthesis call is given.               *)
Request(cfg) ==
    [ text |-> Sentence,
      voice_id |-> voice_id(cfg),
      model_id |-> model_id(cfg),
      output_format |-> output_format(cfg),
      voice_settings |-> voice_settings(cfg) ]

(* The file opened for appending: an existing file keeps its content.     *)
OpenAppend(files, path) ==
    IF path \in DOMAIN files THEN files ELSE (path :> <<>>) @@ files

(* Line 170: open(out_path, "wb") creates the file or truncates it.        *)
OpenWb(files, path) == (path :> <<>>) @@ files

(* Line 173: f.write(chunk).                                               *)
Write(files, path, chunk) == [files EXCEPT ![path] = @ \o chunk]

(* Lines 120-126: the output path, then the voice_id property for the log. *)
GetTtsBegin ==
    /\ Idle
    /\ Enter("get_tts")
    /\ result' = NoResult
    /\ out_path' = OutPath(wav_file)
    /\ \E failed \in MayFail :
          log' = <<Ev("voices.get_all", "voice_id", ~failed, <<>>)>>
    /\ available_voice_ids' = <<>>
    /\ voices' = <<>>
    /\ voice_ids' = <<>>
    /\ audio_stream' = NoStream
    /\ bytes_written' = 0
    /\ pc' = "get_tts:130"
    /\ UNCHANGED <<inputs, obj, client, fs>>

(* Lines 130-139, the call fails: logged (143) and re-raised (144), logged *)
(* again (180) and re-raised (181).                                        *)
GetTtsListVoicesFails ==
    /\ pc = "get_tts:130"
    /\ TRUE \in MayFail
    /\ log' = Append(log, Ev("voices.get_all", "get_tts", FALSE, <<>>))
    /\ Raise(ErrRemote)
    /\ UNCHANGED <<inputs, obj, client, fs, op, locals>>

(* Lines 130-139, the call answers.                                        *)
GetTtsListVoices ==
    /\ pc = "get_tts:130"
    /\ \E vs \in VoiceLists :
          available_voice_ids' = ExtractIds(vs)
    /\ log' = Append(log, Ev("voices.get_all", "get_tts", TRUE, <<>>))
    /\ pc' = "get_tts:140"
    /\ UNCHANGED <<inputs, obj, client, fs, op, result, out_path, voices,
                   voice_ids, audio_stream, bytes_written>>

(* Line 140: the voice_id property is read (its call), then the test.      *)
GetTtsCheckVoice ==
    /\ pc = "get_tts:140"
    /\ \E failed \in MayFail : VoiceIdLookup(failed)
    /\ pc' = IF VoiceFound(config, available_voice_ids)
             THEN "get_tts:146" ELSE "get_tts:141"
    /\ UNCHANGED <<inputs, obj, client, fs, op, result, locals>>

(* Lines 141-144, 179-181: the message reads the property once more.       *)
GetTtsVoiceMissing ==
    /\ pc = "get_tts:141"
    /\ \E failed \in MayFail : VoiceIdLookup(failed)
    /\ Raise(ErrVoiceTts)
    /\ UNCHANGED <<inputs, obj, client, fs, op, locals>>

(* Lines 146-165: the arguments read the voice_id property (its call),     *)
(* then the synthesis call is made; it raises ...                          *)
GetTtsReadVoiceId ==
    /\ pc = "get_tts:146"
    /\ \E failed \in MayFail : VoiceIdLookup(failed)
    /\ pc' = "get_tts:synth"
    /\ UNCHANGED <<inputs, obj, client, fs, op, result, locals>>

GetTtsSynthesisFails ==
    /\ pc = "get_tts:synth"
    /\ TRUE \in MayFail
    /\ log' = Append(log, Ev(SynthesisCall(config), "get_tts", FALSE,
                             <<Request(config)>>))
    /\ Raise(ErrRemote)
    /\ UNCHANGED <<inputs, obj, client, fs, op, locals>>

(* ... or returns the stream of chunks.                                    *)
GetTtsSynthesis ==
    /\ pc = "get_tts:synth"
    /\ \E st \in Streams :
          /\ st.ends = "ok" \/ TRUE \in MayFail
          /\ audio_stream' = st
          /\ log' = Append(log, Ev(SynthesisCall(config), "get_tts", TRUE,
                                   <<Request(config), st>>))
    /\ pc' = "get_tts:170"
    /\ UNCHANGED <<inputs, obj, client, fs, op, result, out_path,
                   available_voice_ids, voices, voice_ids, bytes_written>>

(* Lines 169-170.                                                          *)
GetTtsOpenFails ==
    /\ pc = "get_tts:170"
    /\ TRUE \in MayFail
    /\ log' = Append(log, Ev("open", "get_tts", FALSE, <<out_path>>))
    /\ Raise(ErrIO)
    /\ UNCHANGED <<inputs, obj, client, fs, op, locals>>

GetTtsOpen ==
    /\ pc = "get_tts:170"
    /\ fs' = OpenWb(fs, out_path)
    /\ bytes_written' = 0
    /\ log' = Append(log, Ev("open", "get_tts", TRUE, <<out_path>>))
    /\ pc' = "get_tts:171"
    /\ UNCHANGED <<inputs, obj, client, op, result, out_path,
                   available_voice_ids, voices, voice_ids, audio_stream>>

(* Lines 171-174: one turn of the loop.                                    *)
GetTtsSkipChunk ==
    /\ pc = "get_tts:171"
    /\ audio_stream.chunks # <<>>
    /\ Head(audio_stream.chunks) = <<>>
    /\ audio_stream' = [audio_stream EXCEPT !.chunks = Tail(@)]
    /\ UNCHANGED <<inputs, obj, client, fs, pc, op, log, result, out_path,
                   available_voice_ids, voices, voice_ids, bytes_written>>

GetTtsWriteChunk ==
    /\ pc = "get_tts:171"
    /\ audio_stream.chunks # <<>>
    /\ Head(audio_stream.chunks) # <<>>
    /\ LET chunk == Head(audio_stream.chunks)
       IN  /\ fs' = Write(fs, out_path, chunk)
           /\ bytes_written' = bytes_written + Len(chunk)
           /\ log' = Append(log, Ev("write", "get_tts", TRUE, <<chunk>>))
    /\ audio_stream' = [audio_stream EXCEPT !.chunks = Tail(@)]
    /\ UNCHANGED <<inputs, obj, client, pc, op, result, out_path,
                   available_voice_ids, voices, voice_ids>>

GetTtsWriteFails ==
    /\ pc = "get_tts:171"
    /\ audio_stream.chunks # <<>>
    /\ Head(audio_stream.chunks) # <<>>
    /\ TRUE \in MayFail
    /\ log' = Append(log, Ev("write", "get_tts", FALSE,
                             <<Head(audio_stream.chunks)>>))
    /\ Raise(ErrIO)
    /\ UNCHANGED <<inputs, obj, client, fs, op, locals>>

(* The stream raises while it is iterated.                                 *)
GetTtsStreamRaises ==
    /\ pc = "get_tts:171"
    /\ audio_stream.chunks = <<>>
    /\ audio_stream.ends # "ok"
    /\ log' = Append(log, Ev("stream", "get_tts", FALSE, <<>>))
    /\ Raise(audio_stream.ends)
    /\ UNCHANGED <<inputs, obj, client, fs, op, locals>>

(* Lines 175-177.                                                          *)
GetTtsReturn ==
    /\ pc = "get_tts:171"
    /\ audio_stream.chunks = <<>>
    /\ audio_stream.ends = "ok"
    /\ Return(<<out_path, None>>)
    /\ UNCHANGED <<inputs, obj, client, fs, op, log, locals>>

GetTts ==
    \/ GetTtsBegin
    \/ GetTtsListVoicesFails
    \/ GetTtsListVoices
    \/ GetTtsCheckVoice
    \/ GetTtsVoiceMissing
    \/ GetTtsReadVoiceId
    \/ GetTtsSynthesisFails
    \/ GetTtsSynthesis
    \/ GetTtsOpenFails
    \/ GetTtsOpen
    \/ GetTtsSkipChunk
    \/ GetTtsWriteChunk
    \/ GetTtsWriteFails
    \/ GetTtsStreamRaises
    \/ GetTtsReturn

Properties ==
    \/ GetApiKey
    \/ GetVoiceId
    \/ GetModelId
    \/ GetUseStreaming
    \/ GetOutputFormat
    \/ GetVoiceSettings

-----------------------------------------------------------------------------
(* ElevenLabsTTSValidator.                                                 *)

(* validate_dependencies: the module itself imported elevenlabs when it    *)
(* was loaded (line 7), so the import of line 193 finds it.                *)
ValidateDependencies ==
    /\ Idle
    /\ Enter("validate_dependencies")
    /\ log' = <<>>
    /\ Return(<<None>>)
    /\ ClearLocals
    /\ UNCHANGED <<inputs, obj, client, fs>>

(* validate_connection: one "list models" call; a failure is logged and    *)
(* re-raised.                                                              *)
ValidateConnection ==
    /\ Idle
    /\ Enter("validate_connection")
    /\ \E failed \in MayFail :
          /\ log' = <<Ev("models.get_all", "validate_connection", ~failed, <<>>)>>
          /\ IF failed THEN Raise(ErrRemote) ELSE Return(<<None>>)
    /\ ClearLocals
    /\ UNCHANGED <<inputs, obj, client, fs>>

(* Line 213: [v.voice_id for v in voices] needs the attribute on every     *)
(* entry.                                                                  *)
AllHaveVoiceId(vs) == \A i \in 1..Len(vs) : HasVoiceId(vs[i])
VoiceIdsOf(vs) == [i \in 1..Len(vs) |-> vs[i].voice_id]

(* The test of line 217 left out.                                          *)
VoiceListedAlways(cfg, ids) == TRUE

(* Line 217.                                                               *)
VoiceListed(cfg, ids) == voice_id(cfg) \in Range(ids)

(* validate_voice is entered.                                              *)
ValidateVoiceBegin ==
    /\ Idle
    /\ Enter("validate_voice")
    /\ result' = NoResult
    /\ log' = <<>>
    /\ ClearLocals
    /\ pc' = "validate_voice:212"
    /\ UNCHANGED <<inputs, obj, client, fs>>

(* Line 212: the call fails (logged 222, re-raised 223).                   *)
ValidateVoiceCallFails ==
    /\ pc = "validate_voice:212"
    /\ TRUE \in MayFail
    /\ log' = Append(log, Ev("voices.get_all", "validate_voice", FALSE, <<>>))
    /\ Raise(ErrRemote)
    /\ UNCHANGED <<inputs, obj, client, fs, op, locals>>

(* Line 212: the call answers.                                             *)
ValidateVoiceCall ==
    /\ pc = "validate_voice:212"
    /\ log' = Append(log, Ev("voices.get_all", "validate_voice", TRUE, <<>>))
    /\ \E vs \in VoiceLists : voices' = vs
    /\ pc' = "validate_voice:213"
    /\ UNCHANGED <<inputs, obj, client, fs, op, result, out_path,
                   available_voice_ids, voice_ids, audio_stream, bytes_written>>

(* Line 213 raises on an entry without voice_id.                           *)
ValidateVoiceBadEntry ==
    /\ pc = "validate_voice:213"
    /\ ~AllHaveVoiceId(voices)
    /\ Raise(ErrAttr)
    /\ UNCHANGED <<inputs, obj, client, fs, op, log, locals>>

(* Lines 213-215: the ids, then the property read for the debug line.      *)
ValidateVoiceIds ==
    /\ pc = "validate_voice:213"
    /\ AllHaveVoiceId(voices)
    /\ voice_ids' = VoiceIdsOf(voices)
    /\ \E failed \in MayFail : VoiceIdLookup(failed)
    /\ pc' = "validate_voice:217"
    /\ UNCHANGED <<inputs, obj, client, fs, op, result, out_path,
                   available_voice_ids, voices, audio_stream, bytes_written>>

(* Line 217: the property read, then the membership test.                  *)
ValidateVoiceCheck ==
    /\ pc = "validate_voice:217"
    /\ \E failed \in MayFail : VoiceIdLookup(failed)
    /\ IF VoiceListed(config, voice_ids)
       THEN Return(<<None>>)
       ELSE pc' = "validate_voice:219" /\ UNCHANGED result
    /\ UNCHANGED <<inputs, obj, client, fs, op, locals>>

(* Lines 218-223: the message reads the property once more.                *)
ValidateVoiceMissing ==
    /\ pc = "validate_voice:219"
    /\ \E failed \in MayFail : VoiceIdLookup(failed)
    /\ Raise(ErrVoiceVal)
    /\ UNCHANGED <<inputs, obj, client, fs, op, locals>>

ValidateVoice ==
    \/ ValidateVoiceBegin
    \/ ValidateVoiceCallFails
    \/ ValidateVoiceCall
    \/ ValidateVoiceBadEntry
    \/ ValidateVoiceIds
    \/ ValidateVoiceCheck
    \/ ValidateVoiceMissing

(* Line 229 without .lower().                                              *)
PrimaryLangNoLower(l) == SplitFirst(l, "-")

(* Line 229.                                                               *)
PrimaryLang(l) == Lower(SplitFirst(l, "-"))

(* validate_lang.                                                          *)
ValidateLang ==
    /\ Idle
    /\ Enter("validate_lang")
    /\ log' = <<>>
    /\ IF PrimaryLang(lang) \notin available_languages
       THEN Raise(ErrLang)
       ELSE Return(<<None>>)
    /\ ClearLocals
    /\ UNCHANGED <<inputs, obj, client, fs>>

Validator ==
    \/ ValidateDependencies
    \/ ValidateConnection
    \/ ValidateVoice
    \/ ValidateLang

Next == Construct \/ Properties \/ GetTts \/ Validator

Spec == Init /\ [][Next]_vars

(* get_tts over the suggested paths.                                       *)
SpecPaths == InitPaths /\ [][Next]_vars

(* validate_lang over the locales.                                         *)
NextLangs == Construct \/ ValidateLang \/ ValidateDependencies
SpecLangs == InitLangs /\ [][NextLangs]_vars
-----------------------------------------------------------------------------
(* Vocabulary of the properties.                                           *)

(* The operation `name` has run to its end: it returned or raised.         *)
Finished(name) == pc = "idle" /\ op = name /\ result.status # "none"

Calls(call) == {i \in DOMAIN log : log[i].call = call}
SynthesisCalls ==
    Calls("text_to_speech.convert") \cup Calls("text_to_speech.convert_as_stream")

(* Everything before the final extension: the text before the last dot.    *)
LastDot(p) ==
    LET dots == {i \in DOMAIN p : p[i] = "."}
    IN  IF dots = {} THEN Len(p) + 1
        ELSE CHOOSE i \in dots : \A j \in dots : j <= i
Stem(p) == SubSeq(p, 1, LastDot(p) - 1)

(* The voice id the configuration resolves to.                             *)
ResolvedVoice ==
    IF "voice_id" \in DOMAIN config /\ config["voice_id"] # ""
    THEN config["voice_id"] ELSE DEFAULT_VOICE_ID

StreamingOn ==
    IF "use_streaming" \in DOMAIN config THEN config["use_streaming"] ELSE FALSE

(* The validating list-voices call of get_tts succeeded and listed the     *)
(* resolved voice.                                                         *)
ValidatedBefore(i) ==
    /\ \E j \in 1..(i - 1) :
          log[j].call = "voices.get_all" /\ log[j].site = "get_tts" /\ log[j].ok
    /\ ResolvedVoice \in Range(available_voice_ids)
VoiceValidated == ValidatedBefore(Len(log) + 1)

(* C1: for every suggested path that ends in ".wav", a successful get_tts  *)
(* returns a path that ends in ".mp3" and has the stem of the suggested    *)
(* path, also when ".wav" occurs elsewhere in the path.                    *)
C1_WavStemKept ==
    (Finished("get_tts") /\ result.status = "returned" /\ EndsWith(wav_file, WavExt))
        => /\ EndsWith(result.value[1], Mp3Ext)
           /\ Stem(result.value[1]) = Stem(wav_file)

(* C2: whatever the extension of the suggested path, the path get_tts      *)
(* writes to and returns ends in "mp3".                                    *)
C2_AlwaysMp3 ==
    /\ (op = "get_tts" /\ Calls("open") # {}) => EndsWith(out_path, Mp3)
    /\ (Finished("get_tts") /\ result.status = "returned")
           => EndsWith(result.value[1], Mp3)

(* C3: with api_key absent or empty in the configuration and               *)
(* ELEVENLABS_API_KEY unset or empty, construction fails with the          *)
(* configuration error and no client exists; otherwise the client is       *)
(* created with the configuration's key when it has one, else with the     *)
(* environment's.                                                          *)
C3_ApiKeyRequired ==
    LET inCfg == "api_key" \in DOMAIN config /\ config["api_key"] # ""
        inEnv == "ELEVENLABS_API_KEY" \in DOMAIN env
                     /\ env["ELEVENLABS_API_KEY"] # ""
    IN  obj # "none" =>
          /\ (~inCfg /\ ~inEnv) =>
                /\ obj = "failed"
                /\ client = <<>>
                /\ op = "__init__" /\ result = Raised(ErrNoKey)
          /\ inCfg =>
                obj = "live" /\ client = <<[api_key |-> config["api_key"]]>>
          /\ (~inCfg /\ inEnv) =>
                /\ obj = "live"
                /\ client = <<[api_key |-> env["ELEVENLABS_API_KEY"]]>>

(* C3: a construction that failed for want of a key.                       *)
C3_Witness ==
    /\ obj = "failed"
    /\ result = Raised(ErrNoKey)
    /\ config = [api_key |-> ""]
    /\ env = [ELEVENLABS_API_KEY |-> ""]

(* C4 as stated: every get_tts invocation issues exactly one synthesis     *)
(* call, the non-streaming one when use_streaming is false and the         *)
(* streaming one when it is true, and none of the other kind.              *)
C4_ExactlyOneAlways ==
    Finished("get_tts") =>
        IF StreamingOn
        THEN /\ Cardinality(Calls("text_to_speech.convert_as_stream")) = 1
             /\ Calls("text_to_speech.convert") = {}
        ELSE /\ Cardinality(Calls("text_to_speech.convert")) = 1
             /\ Calls("text_to_speech.convert_as_stream") = {}

(* C4, amended: a get_tts invocation never issues the synthesis call of    *)
(* the other kind, and issues the call of its own kind exactly once when   *)
(* its list-voices validation succeeded and listed the resolved voice, and *)
(* not at all otherwise.                                                   *)
C4_OneWhenValidated ==
    Finished("get_tts") =>
        LET own == IF StreamingOn THEN Calls("text_to_speech.convert_as_stream")
                   ELSE Calls("text_to_speech.convert")
            other == IF StreamingOn THEN Calls("text_to_speech.convert")
                     ELSE Calls("text_to_speech.convert_as_stream")
        IN  /\ other = {}
            /\ Cardinality(own) = IF VoiceValidated THEN 1 ELSE 0

(* C4: a validated non-streaming invocation that made its one call.        *)
C4_Witness ==
    /\ Finished("get_tts")
    /\ ~StreamingOn
    /\ "use_streaming" \in DOMAIN config
    /\ Cardinality(Calls("text_to_speech.convert")) = 1
    /\ result.status = "returned"

(* C5: after a successful get_tts the file at the returned path holds      *)
(* exactly the non-empty chunks of the invocation's single synthesis call, *)
(* concatenated in the order received, and nothing else; the second        *)
(* element of the returned pair is null.                                   *)
C5_FileIsTheStream ==
    (Finished("get_tts") /\ result.status = "returned") =>
        /\ Cardinality(SynthesisCalls) = 1
        /\ LET received == log[CHOOSE i \in SynthesisCalls : TRUE].data[2].chunks
               path == result.value[1]
           IN  /\ path \in DOMAIN fs
               /\ fs[path] = Flatten(SelectSeq(received, LAMBDA c : c # <<>>))
        /\ result.value[2] = None

(* C5: a successful invocation that received two chunks, in that order.    *)
C5_Witness ==
    /\ Finished("get_tts")
    /\ result.status = "returned"
    /\ \E i \in SynthesisCalls : log[i].data[2].chunks = << <<2>>, <<1>> >>
    /\ fs[result.value[1]] = <<2, 1>>

(* C6: every failure of a remote call or of a file write inside an         *)
(* operation is re-raised to the operation's caller as the same error, and *)
(* the failed operation is not attempted again in the same invocation.     *)
C6_FailuresPropagate ==
    (pc = "idle" /\ op # "none") =>
        \A i \in DOMAIN log :
            ~log[i].ok =>
                /\ result.status = "raised"
                /\ result.err = IF log[i].call \in {"open", "write"}
                                THEN ErrIO ELSE ErrRemote
                /\ \A j \in DOMAIN log : j > i => log[j].call # log[i].call

(* C7: validate_voice fails whenever the list-voices call returns an empty *)
(* list or a list without the resolved voice id, and succeeds only when    *)
(* the resolved voice id is a member of the returned list.                 *)
C7_VoiceMustBeListed ==
    Finished("validate_voice") =>
        LET listed == \E i \in DOMAIN voices :
                         \/ HasVoiceId(voices[i]) /\ voices[i].voice_id = ResolvedVoice
                         \/ IsTuple(voices[i])
                               /\ voices[i].tuple[1].voice_id = ResolvedVoice
            member == \E i \in DOMAIN voices :
                         HasVoiceId(voices[i]) /\ voices[i].voice_id = ResolvedVoice
        IN  /\ (voices = <<>> \/ ~listed) => result.status = "raised"
            /\ result.status = "returned" => (log[1].ok /\ member)

(* C7: validate_voice failed on an empty list.                             *)
C7_Witness ==
    /\ Finished("validate_voice")
    /\ log[1].ok
    /\ voices = <<>>
    /\ result = Raised(ErrVoiceVal)

(* C8: validate_lang succeeds exactly when the lower-cased text before the *)
(* first hyphen of the locale is in the supported-language set; it         *)
(* succeeds for "en-US" and "EN-us" and fails for "xx-YY".                 *)
C8_LangBySubtag ==
    Finished("validate_lang") =>
        LET hyphens == {i \in DOMAIN lang : lang[i] = "-"}
            cut == IF hyphens = {} THEN Len(lang) + 1
                   ELSE CHOOSE i \in hyphens : \A j \in hyphens : i <= j
            subtag == [i \in 1..(cut - 1) |-> LowerChar(lang[i])]
        IN  /\ result.status = "returned" <=> subtag \in available_languages
            /\ lang \in {EnUS, ENus} => result.status = "returned"
            /\ lang = XxYY => result = Raised(ErrLang)

(* C8: validate_lang succeeded for "EN-us".                                *)
C8_Witness ==
    /\ Finished("validate_lang")
    /\ lang = ENus
    /\ result.status = "returned"

(* C9: resolving an effective parameter (api_key, voice_id, model_id,      *)
(* use_streaming, output_format, voice_settings) issues no remote call.    *)
C9_ResolutionIsLocal ==
    (pc = "idle" /\ op \in {"api_key", "voice_id", "model_id", "use_streaming",
                            "output_format", "voice_settings"})
        => log = <<>>

(* C10: in a get_tts invocation a synthesis call is issued and the         *)
(* destination file is opened only after the invocation's list-voices      *)
(* validation succeeded and listed the resolved voice id; when that call   *)
(* fails or the id is not listed, get_tts raises with no synthesis call    *)
(* issued and the file system untouched.                                   *)
C10_ValidateFirstState ==
    op = "get_tts" =>
        /\ \A i \in SynthesisCalls \cup Calls("open") \cup Calls("write") :
              ValidatedBefore(i)
        /\ (pc = "idle" /\ ~VoiceValidated) =>
              /\ result.status = "raised"
              /\ SynthesisCalls \cup Calls("open") \cup Calls("write") = {}

(* C10: the state property above in every state, and the file system      *)
(* changes only in an open or write step of a get_tts invocation whose     *)
(* validation has passed.                                                  *)
C10_ValidateFirst ==
    /\ []C10_ValidateFirstState
    /\ [][fs' # fs =>
            /\ op' = "get_tts"
            /\ Len(log') = Len(log) + 1
            /\ log'[Len(log')].call \in {"open", "write"}
            /\ ValidatedBefore(Len(log) + 1)]_vars

(* C10: get_tts raised because the voice was not listed, with no synthesis *)
(* call.                                                                   *)
C10_Witness ==
    /\ Finished("get_tts")
    /\ result = Raised(ErrVoiceTts)
    /\ Cardinality(Calls("voices.get_all")) > 1
    /\ SynthesisCalls = {}
====
